---- MODULE Spec2Model ----
(***************************************************************************)
(* Model of CppOpenCVUtil::ImageUtil (src/src/ImageUtil.cpp): min/max,     *)
(* exact and uniform histograms, percentiles, conversion to 8 bit and the  *)
(* per-format conversion before saving.                                    *)
(*                                                                         *)
(* A buffer is [type, pix]: the OpenCV type and the samples in row-major   *)
(* order.  Samples of the integer types are integers; samples of CV_32F    *)
(* and every float scalar are exact rationals <<n, d>> with d >= 0, where  *)
(* <<0,0>> is NaN, <<1,0>> is +inf and <<-1,0>> is -inf.  Float rounding   *)
(* error is not modelled: arithmetic is exact.                             *)
(*                                                                         *)
(* A std::vector<int> of counts is [len, nz]: its length and the function  *)
(* from its non-zero slots to their values (every other slot is 0).        *)
(***************************************************************************)
EXTENDS Integers, Sequences, FiniteSets, TLC

VARIABLES img, op, args, ret

vars == <<img, op, args, ret>>

\* ------------------------------------------------------------------ bounds
\* Longest buffer (rows * cols) that is enumerated.
MaxLen == 3

\* Rows and columns of the long buffers: over 100 samples, so that one sample
\* is less than 1 percent of the buffer.
BigRows == 11
BigCols == 10

\* ------------------------------------------------------------- rationals
NaN == <<0, 0>>
PosInf == <<1, 0>>
NegInf == <<-1, 0>>

IsNaN(a) == a[1] = 0 /\ a[2] = 0
IsFinite(a) == a[2] > 0

Abs(n) == IF n < 0 THEN -n ELSE n

RECURSIVE Gcd(_, _)
Gcd(a, b) == IF b = 0 THEN a ELSE Gcd(b, a % b)

\* n/d in lowest terms, d > 0 (d # 0 on entry)
Norm(n, d) ==
    LET s == IF d < 0 THEN -1 ELSE 1
        g == Gcd(Abs(n), Abs(d))
    IN  <<(s * n) \div g, (s * d) \div g>>

R(n) == <<n, 1>>

\* IEEE comparisons: every comparison with NaN is false
Lt(a, b) ==
    /\ ~IsNaN(a) /\ ~IsNaN(b)
    /\ IF a[2] = 0 /\ b[2] = 0 THEN a[1] < b[1] ELSE a[1] * b[2] < b[1] * a[2]
Le(a, b) ==
    /\ ~IsNaN(a) /\ ~IsNaN(b)
    /\ IF a[2] = 0 /\ b[2] = 0 THEN a[1] <= b[1] ELSE a[1] * b[2] <= b[1] * a[2]
Eq(a, b) == Le(a, b) /\ Le(b, a)

\* arithmetic on finite operands
Add(a, b) == Norm(a[1] * b[2] + b[1] * a[2], a[2] * b[2])
Sub(a, b) == Norm(a[1] * b[2] - b[1] * a[2], a[2] * b[2])
Mul(a, b) == Norm(a[1] * b[1], a[2] * b[2])
Div(a, b) == Norm(a[1] * b[2], a[2] * b[1])
Neg(a) == <<-a[1], a[2]>>
FAbs(a) == <<Abs(a[1]), a[2]>>

\* std::min / std::max of <algorithm>: (b < a) ? b : a and (a < b) ? b : a
FMin(a, b) == IF Lt(b, a) THEN b ELSE a
FMax(a, b) == IF Lt(a, b) THEN b ELSE a

\* floor of a finite rational (TLC's \div rounds towards minus infinity)
Floor(a) == a[1] \div a[2]

\* cvRound: round to nearest, ties to even
CvRound(a) ==
    LET f == Floor(a)
        twice == 2 * a[1] - 2 * f * a[2]    \* 2 * fractional part * d
    IN  IF twice < a[2] THEN f
        ELSE IF twice > a[2] THEN f + 1
        ELSE IF f % 2 = 0 THEN f ELSE f + 1

\* saturate_cast<uchar>(int)
SaturateU8(n) == IF n < 0 THEN 0 ELSE IF n > 255 THEN 255 ELSE n

\* --------------------------------------------------------------- buffers
SingleTypes == {"CV_8U", "CV_16U", "CV_32S", "CV_32F"}
MultiTypes == {"CV_8UC3", "CV_8UC4", "CV_16UC3"}
Types == SingleTypes \cup MultiTypes

Samples(t) ==
    CASE t = "CV_8U"    -> {0, 1, 128, 255}
      [] t = "CV_16U"   -> {0, 1, 1000, 65535}
      [] t = "CV_32S"   -> {-7, 0, 300}
      [] t = "CV_32F"   -> {NaN, R(-3), R(0), <<1, 2>>, R(5)}
      [] t = "CV_8UC3"  -> {<<10, 20, 30>>, <<255, 0, 0>>}
      [] t = "CV_8UC4"  -> {<<10, 20, 30, 40>>}
      [] t = "CV_16UC3" -> {<<1000, 2, 3>>}

Pixels(t) == UNION {[1..n -> Samples(t)] : n \in 0..MaxLen}

Images == UNION {{[type |-> t, pix |-> p] : p \in Pixels(t)} : t \in Types}

\* long CV_16U buffers of BigRows rows of BigCols samples, pix holding the
\* rows one after the other: one sample a followed by samples b
BigImages ==
    {[type |-> "CV_16U", cols |-> BigCols,
      pix |-> [i \in 1..(BigRows * BigCols) |-> IF i = 1 THEN a ELSE b]] :
        a \in Samples("CV_16U"), b \in Samples("CV_16U")}

\* img.cols and img.rows: a buffer without a cols field is a single row
Cols(m) == IF "cols" \in DOMAIN m THEN m.cols ELSE Len(m.pix)
Rows(m) == IF Len(m.pix) = 0 THEN 0 ELSE Len(m.pix) \div Cols(m)

Channels(t) ==
    CASE t \in SingleTypes -> 1
      [] t = "CV_8UC4"     -> 4
      [] OTHER             -> 3

\* sample i of a buffer as a float
FVal(m, i) == IF m.type = "CV_32F" THEN m.pix[i] ELSE R(m.pix[i])

HasNaN(m) == m.type = "CV_32F" /\ \E i \in DOMAIN m.pix : IsNaN(m.pix[i])

\* ---------------------------------------------------------------- errors
\* bail() of MiscUtil.h, cv::Exception raised by an OpenCV call,
\* std::runtime_error thrown by convertForSave, std::length_error of
\* vector::resize, the InvalidArgument of findPercentileInHist
ErrNone == "none"
ErrBail == "bail"
ErrCv == "cv::Exception"
ErrRuntime == "std::runtime_error"
ErrLength == "std::length_error"
ErrInvalidArgument == "InvalidArgument"

\* -------------------------------------------------------------- imgMinMax
FLT_MAX == R(1000000)

\* How cv::minMaxLoc treats NaN samples depends on the build ("happens on
\* mac os when any nan's in the image"): it reports NaN, or it skips them
\* because every comparison with NaN is false.
NanModes == {"propagate", "skip"}

RECURSIVE FoldMin(_, _, _)
FoldMin(m, i, acc) ==
    IF i > Len(m.pix) THEN acc
    ELSE FoldMin(m, i + 1, IF Lt(FVal(m, i), acc) THEN FVal(m, i) ELSE acc)

RECURSIVE FoldMax(_, _, _)
FoldMax(m, i, acc) ==
    IF i > Len(m.pix) THEN acc
    ELSE FoldMax(m, i + 1, IF Lt(acc, FVal(m, i)) THEN FVal(m, i) ELSE acc)

\* cv::minMaxLoc(img, &minVal, &maxVal, ...)
MinMaxLoc(m, mode) ==
    IF Channels(m.type) # 1 THEN [err |-> ErrCv, low |-> NaN, high |-> NaN]
    ELSE IF Len(m.pix) = 0 THEN [err |-> ErrNone, low |-> R(0), high |-> R(0)]
    ELSE IF HasNaN(m) /\ mode = "propagate"
         THEN [err |-> ErrNone, low |-> NaN, high |-> NaN]
    ELSE [err |-> ErrNone, low |-> FoldMin(m, 1, PosInf), high |-> FoldMax(m, 1, NegInf)]

\* the linear scan of imgMinMax, lines 163-180
RECURSIVE ScanMinMax(_, _, _, _)
ScanMinMax(m, i, lowVal, highVal) ==
    IF i > Len(m.pix) THEN [low |-> lowVal, high |-> highVal]
    ELSE LET val == FVal(m, i)
         IN  IF ~IsNaN(val)
             THEN ScanMinMax(m, i + 1, FMin(lowVal, val), FMax(highVal, val))
             ELSE ScanMinMax(m, i + 1, lowVal, highVal)

\* imgMinMax without the scan that replaces a NaN result
imgMinMax_NoFallback(m, mode) ==
    LET mm == MinMaxLoc(m, mode)
    IN  IF mm.err = ErrNone /\ (IsNaN(mm.low) \/ IsNaN(mm.high)) /\ m.type # "CV_32F"
        THEN [err |-> ErrBail, low |-> NaN, high |-> NaN]
        ELSE mm

imgMinMax(m, mode) ==
    LET mm == MinMaxLoc(m, mode)
    IN  IF mm.err # ErrNone THEN mm
        ELSE IF IsNaN(mm.low) \/ IsNaN(mm.high)
        THEN IF m.type # "CV_32F"
             THEN [err |-> ErrBail, low |-> NaN, high |-> NaN]
             ELSE LET s == ScanMinMax(m, 1, FLT_MAX, Neg(FLT_MAX))
                  IN  IF Lt(s.high, s.low)
                      THEN [err |-> ErrNone, low |-> NaN, high |-> NaN]
                      ELSE [err |-> ErrNone, low |-> s.low, high |-> s.high]
        ELSE mm

\* ---------------------------------------------------------------- vectors
EmptyFcn == [k \in {} |-> 0]

\* std::vector<int> after resize(n): n zeros
ZeroVec(n) == [len |-> n, nz |-> EmptyFcn]

Slot(c, k) == IF k \in DOMAIN c.nz THEN c.nz[k] ELSE 0

IncSlot(c, k) == [c EXCEPT !.nz = (k :> (Slot(c, k) + 1)) @@ c.nz]

RECURSIVE SumOver(_, _)
SumOver(f, S) ==
    IF S = {} THEN 0
    ELSE LET k == CHOOSE x \in S : TRUE IN f[k] + SumOver(f, S \ {k})

VecSum(c) == SumOver(c.nz, DOMAIN c.nz)

RECURSIVE Pow2(_)
Pow2(n) == IF n = 0 THEN 1 ELSE 2 * Pow2(n - 1)

\* x >> s for x >= 0 and 0 <= s < 32
Shr(x, s) == x \div Pow2(s)

\* ---------------------------------------------------------------- histInt
\* the loop over x of histInt(cv::Mat&), st holding x and counts:
\* counts[ps[x]]++ in row y
RECURSIVE HistCols(_, _, _)
HistCols(m, y, st) ==
    IF st.x > Cols(m) THEN st.counts
    ELSE HistCols(m, y,
            [x |-> st.x + 1,
             counts |-> IncSlot(st.counts, m.pix[(y - 1) * Cols(m) + st.x])])

\* the loop over y of histInt(cv::Mat&), st holding y and counts
RECURSIVE HistRows(_, _)
HistRows(m, st) ==
    IF st.y > Rows(m) THEN st.counts
    ELSE HistRows(m,
            [y |-> st.y + 1,
             counts |-> HistCols(m, st.y, [x |-> 1, counts |-> st.counts])])

histInt(m) ==
    IF m.type = "CV_8U"
    THEN [err |-> ErrNone, counts |-> HistRows(m, [y |-> 1, counts |-> ZeroVec(256)])]
    ELSE IF m.type = "CV_16U"
    THEN [err |-> ErrNone, counts |-> HistRows(m, [y |-> 1, counts |-> ZeroVec(65536)])]
    ELSE [err |-> ErrBail, counts |-> ZeroVec(0)]

\* the pixel loops of histInt(cv::Mat&, int): counts[ps[x] >> binShift]++.
\* A write to a slot >= counts.size() is outside the vector: it is recorded
\* in oob and leaves the vector itself as it was.
RECURSIVE HistShiftLoop(_, _, _, _)
HistShiftLoop(pix, binShift, i, acc) ==
    IF i > Len(pix) THEN acc
    ELSE LET k == Shr(pix[i], binShift)
         IN  IF k < acc.counts.len
             THEN HistShiftLoop(pix, binShift, i + 1,
                                [acc EXCEPT !.counts = IncSlot(acc.counts, k)])
             ELSE HistShiftLoop(pix, binShift, i + 1,
                                [acc EXCEPT !.oob = @ \cup {k}])

histIntShift(m, binShift) ==
    IF m.type = "CV_8U"
    THEN HistShiftLoop(m.pix, binShift, 1,
            [err |-> ErrNone, counts |-> ZeroVec(Shr(256, binShift)), oob |-> {}])
    ELSE IF m.type = "CV_16U"
    THEN HistShiftLoop(m.pix, binShift, 1,
            [err |-> ErrNone, counts |-> ZeroVec(Shr(65536, binShift)), oob |-> {}])
    ELSE [err |-> ErrBail, counts |-> ZeroVec(0), oob |-> {}]

\* -------------------------------------------------------------- histFloat
\* channel 0 of sample i as a float (calcHist is called with channels = 0)
Chan0(m, i) ==
    IF Channels(m.type) = 1 THEN FVal(m, i) ELSE R(m.pix[i][1])

\* the per-sample step of a uniform cv::calcHist over [lo, hi) with histSize
\* bins: idx = cvFloor(v * a + b), a = histSize / (hi - lo), b = -lo * a,
\* counted only if 0 <= idx < histSize; a NaN sample is not counted
CalcHistIdx(v, histSize, lo, hi) ==
    Floor(Div(Mul(Sub(v, lo), R(histSize)), Sub(hi, lo)))

\* if ((unsigned)idx < (unsigned)histSize) hist[idx]++
CountIdx(counts, idx, histSize) ==
    IF idx >= 0 /\ idx < histSize THEN IncSlot(counts, idx) ELSE counts

RECURSIVE CalcHistLoop(_, _, _, _, _, _)
CalcHistLoop(m, i, histSize, lo, hi, counts) ==
    IF i > Len(m.pix) THEN counts
    ELSE IF IsNaN(Chan0(m, i))
    THEN CalcHistLoop(m, i + 1, histSize, lo, hi, counts)
    ELSE CalcHistLoop(m, i + 1, histSize, lo, hi,
            CountIdx(counts, CalcHistIdx(Chan0(m, i), histSize, lo, hi), histSize))

\* cv::calcHist(&img, 1, 0, mask, floatHist, 1, &binCount, &histRange, true,
\* false) followed by floatHist.convertTo(hist, CV_32S); the source depth
\* must be CV_8U, CV_16U or CV_32F
calcHist(m, histSize, lo, hi) ==
    IF m.type \in {"CV_32S"}
    THEN [err |-> ErrCv, counts |-> ZeroVec(0)]
    ELSE [err |-> ErrNone,
          counts |-> CalcHistLoop(m, 1, histSize, lo, hi, ZeroVec(histSize))]

\* the upper bound without the margin
Widen_None(maxVal, binSize) == maxVal

\* maxVal += 0.1f * binSize
Widen(maxVal, binSize) == Add(maxVal, Mul(<<1, 10>>, binSize))

\* What calcHist does with histSize = 0 is not fixed by its documentation:
\* it raises, or it leaves an empty histogram.
ZeroBinOutcomes == {"raise", "empty"}

\* the result of histFloat: what is left in bins, hist and in the caller's
\* minVal and maxVal
HistResult(err, bins, counts, minVal, maxVal) ==
    [err |-> err, bins |-> bins, counts |-> counts, minVal |-> minVal, maxVal |-> maxVal]

\* the bin edges spread over the widened range
HistFloatBins_WidenedEdges(binCount, minVal, binSize, widened, h) ==
    HistResult(h.err,
               [i \in 1..binCount |->
                    Add(minVal, Mul(R(i - 1), Div(Sub(widened, minVal), R(binCount))))],
               h.counts, minVal, widened)

\* lines 319-341 of histFloat, h being what calcHist makes of the widened range
HistFloatBins(binCount, minVal, binSize, widened, h) ==
    HistResult(h.err,
               [i \in 1..binCount |-> Add(minVal, Mul(R(i - 1), binSize))],
               h.counts, minVal, widened)

\* the single bin starting at maxVal
HistFloatRange_BinAtMax(m, binCount, minVal, maxVal, zb) ==
    IF IsNaN(maxVal)
    THEN HistResult(ErrNone, <<>>, ZeroVec(0), minVal, maxVal)
    ELSE IF Le(maxVal, minVal)
    THEN HistResult(ErrNone, <<maxVal>>, ZeroVec(1), minVal, maxVal)
    ELSE HistResult(ErrNone, <<>>, ZeroVec(0), minVal, maxVal)

\* lines 302-342 of histFloat, minVal and maxVal being resolved
HistFloatRange(m, binCount, minVal, maxVal, zb) ==
    IF IsNaN(maxVal)
    THEN HistResult(ErrNone, <<>>, ZeroVec(0), minVal, maxVal)
    ELSE IF Le(maxVal, minVal)
    THEN HistResult(ErrNone, <<minVal>>, ZeroVec(1), minVal, maxVal)
    ELSE IF binCount < 0
    THEN \* bins.resize((size_t)binCount)
         HistResult(ErrLength, <<>>, ZeroVec(0), minVal, maxVal)
    ELSE IF binCount = 0
    THEN \* binSize = +inf, maxVal += 0.1f * binSize
         HistResult(IF zb = "raise" \/ m.type = "CV_32S" THEN ErrCv ELSE ErrNone,
                    <<>>, ZeroVec(0), minVal, PosInf)
    ELSE HistFloatBins(binCount, minVal, Div(Sub(maxVal, minVal), R(binCount)),
            Widen(maxVal, Div(Sub(maxVal, minVal), R(binCount))),
            calcHist(m, binCount, minVal,
                     Widen(maxVal, Div(Sub(maxVal, minVal), R(binCount)))))

\* lines 296-300 of histFloat, minMax being the result of imgMinMax(img)
HistFloatDefaultMax(m, binCount, minVal, minMax, zb) ==
    IF minMax.err # ErrNone
    THEN HistResult(minMax.err, <<>>, ZeroVec(0), minVal, NaN)
    ELSE HistFloatRange(m, binCount, minVal, minMax.high, zb)

\* lines 291-294 of histFloat
DefaultMin(minVal) == IF IsNaN(minVal) THEN R(0) ELSE minVal

\* histFloat(img, binCount, minVal&, maxVal&, bins&, hist&)
histFloat(m, binCount, minVal, maxVal, mode, zb) ==
    IF IsNaN(maxVal)
    THEN HistFloatDefaultMax(m, binCount, DefaultMin(minVal), imgMinMax(m, mode), zb)
    ELSE HistFloatRange(m, binCount, DefaultMin(minVal), maxVal, zb)

\* -------------------------------------------------------------- percentiles
\* running sum of the counts up to and including slot k
Cum(c, k) == SumOver(c.nz, {j \in DOMAIN c.nz : j <= k})

\* findPercentileInHist(counts, percentile) of MathUtil.h: the first index
\* whose running sum reaches percentile / 100 * sum(counts).  The running
\* sum changes only at a non-zero slot, so the first such index is 0 or a
\* non-zero slot.
FirstReached(c, hit, first) ==
    IF first \/ hit = {} THEN 0 ELSE CHOOSE k \in hit : \A j \in hit : k <= j

PercentileIdx(c, target100) ==
    FirstReached(c, {k \in DOMAIN c.nz : 100 * Cum(c, k) >= target100},
                 100 * Slot(c, 0) >= target100)

findPercentileInHist(c, pct) ==
    IF c.len = 0 THEN [err |-> ErrInvalidArgument, idx |-> 0]
    ELSE [err |-> ErrNone, idx |-> PercentileIdx(c, pct * VecSum(c))]

\* both percentiles taken at lowPct
PercentilesOfCounts_LowTwice(counts, lowPct, highPct) ==
    [err |-> ErrNone,
     low |-> findPercentileInHist(counts, lowPct).idx,
     high |-> findPercentileInHist(counts, lowPct).idx]

\* line 421, counts being the result of histInt(img)
PercentilesOfCounts(counts, lowPct, highPct) ==
    [err |-> ErrNone,
     low |-> findPercentileInHist(counts, lowPct).idx,
     high |-> findPercentileInHist(counts, highPct).idx]

histPercentilesInt(m, lowPct, highPct) ==
    IF m.type = "CV_8U" \/ m.type = "CV_16U"
    THEN PercentilesOfCounts(histInt(m).counts, lowPct, highPct)
    ELSE [err |-> ErrBail, low |-> 0, high |-> 0]

\* the two bins in the other order
BinsAt_Swapped(bins, lo, hi) ==
    IF lo.err # ErrNone THEN [err |-> lo.err, low |-> NaN, high |-> NaN]
    ELSE [err |-> ErrNone, low |-> bins[hi.idx + 1], high |-> bins[lo.idx + 1]]

\* line 448: bins[lowIdx], bins[highIdx]
BinsAt(bins, lo, hi) ==
    IF lo.err # ErrNone THEN [err |-> lo.err, low |-> NaN, high |-> NaN]
    ELSE [err |-> ErrNone, low |-> bins[lo.idx + 1], high |-> bins[hi.idx + 1]]

\* lines 446-448, h being what histFloat left in bins and counts
PercentilesOfHist(h, lowPct, highPct) ==
    IF h.err # ErrNone THEN [err |-> h.err, low |-> NaN, high |-> NaN]
    ELSE BinsAt(h.bins, findPercentileInHist(h.counts, lowPct),
                findPercentileInHist(h.counts, highPct))

histPercentiles32f(m, lowPct, highPct, mode) ==
    IF m.type = "CV_32F"
    THEN PercentilesOfHist(histFloat(m, 256, NaN, NaN, mode, "raise"), lowPct, highPct)
    ELSE [err |-> ErrBail, low |-> NaN, high |-> NaN]

\* line 469: the pair of int as a pair of float
FloatPair(t) == [err |-> t.err, low |-> R(t.low), high |-> R(t.high)]

histPercentiles(m, lowPct, highPct, mode) ==
    IF m.type = "CV_8U" \/ m.type = "CV_16U"
    THEN FloatPair(histPercentilesInt(m, lowPct, highPct))
    ELSE IF m.type = "CV_32F"
    THEN histPercentiles32f(m, lowPct, highPct, mode)
    ELSE [err |-> ErrBail, low |-> NaN, high |-> NaN]

\* ----------------------------------------------------------------- imgTo8u
\* What saturate_cast<uchar> makes of NaN is left to the build.
NanBytes == {0, 255}

\* the scaling without its offset beta
ScaleAbs_NoBeta(x, lowVal, highVal, nanByte) ==
    IF IsNaN(x) \/ ~IsFinite(lowVal) \/ ~IsFinite(highVal) \/ Eq(highVal, lowVal)
    THEN nanByte
    ELSE SaturateU8(CvRound(FAbs(Div(Mul(R(255), x), Sub(highVal, lowVal)))))

\* one sample of cv::convertScaleAbs(img, dst, alpha, beta) with
\* alpha = 255 / (highVal - lowVal) and beta = -alpha * lowVal:
\* saturate_cast<uchar>(|x * alpha + beta|).  With highVal = lowVal, or a NaN
\* or infinite bound, x * alpha + beta is NaN for every sample that reaches
\* this point.
ScaleAbs(x, lowVal, highVal, nanByte) ==
    IF IsNaN(x) \/ ~IsFinite(lowVal) \/ ~IsFinite(highVal) \/ Eq(highVal, lowVal)
    THEN nanByte
    ELSE SaturateU8(CvRound(FAbs(
            Div(Mul(R(255), Sub(x, lowVal)), Sub(highVal, lowVal)))))

\* the type of an 8-bit buffer with as many channels as type t
ByteType(t) ==
    CASE Channels(t) = 1 -> "CV_8U"
      [] Channels(t) = 3 -> "CV_8UC3"
      [] OTHER           -> "CV_8UC4"

convertScaleAbs(m, lowVal, highVal, nanByte) ==
    [type |-> ByteType(m.type),
     pix |-> IF Channels(m.type) = 1
             THEN [i \in DOMAIN m.pix |-> ScaleAbs(FVal(m, i), lowVal, highVal, nanByte)]
             ELSE [i \in DOMAIN m.pix |->
                     [c \in DOMAIN m.pix[i] |->
                         ScaleAbs(R(m.pix[i][c]), lowVal, highVal, nanByte)]]]

NoImage == [type |-> "none", pix |-> <<>>]

\* lines 209-213 of imgTo8u; lowVal and highVal of the result are the range
\* that was used
Scaled(m, lowVal, highVal, nanByte) ==
    [err |-> ErrNone, dst |-> convertScaleAbs(m, lowVal, highVal, nanByte),
     lowVal |-> lowVal, highVal |-> highVal]

\* lines 204-213 of imgTo8u, minMax being the result of imgMinMax(img)
ScaledToMinMax(m, minMax, nanByte) ==
    IF minMax.err # ErrNone
    THEN [err |-> minMax.err, dst |-> NoImage, lowVal |-> NaN, highVal |-> NaN]
    ELSE Scaled(m, minMax.low, minMax.high, nanByte)

imgTo8u(m, lowVal, highVal, mode, nanByte) ==
    IF Le(highVal, lowVal)
    THEN ScaledToMinMax(m, imgMinMax(m, mode), nanByte)
    ELSE Scaled(m, lowVal, highVal, nanByte)

\* ------------------------------------------------------------ computeStats
RECURSIVE SumPix(_, _)
SumPix(m, i) ==
    IF i > Len(m.pix) THEN R(0) ELSE Add(FVal(m, i), SumPix(m, i + 1))

\* cv::sum(img)[0]
cvSum(m) == IF HasNaN(m) THEN NaN ELSE SumPix(m, 1)

\* cv::countNonZero(img)
countNonZero(m) == Cardinality({i \in DOMAIN m.pix : m.pix[i] # 0})

Unset == "unset"

\* the fields of ImageStats
Stats(m, nonzeroCount, sum, minVal, maxVal) ==
    [type |-> m.type, size |-> Len(m.pix), nonzeroCount |-> nonzeroCount,
     sum |-> sum, minVal |-> minVal, maxVal |-> maxVal]

\* lines 606-620 of computeStats, mm being the result of cv::minMaxLoc
StatsOf(m, nonzeroCount, mm) ==
    IF Len(m.pix) # 0
    THEN Stats(m, nonzeroCount, cvSum(m), mm.low, mm.high)
    ELSE Stats(m, nonzeroCount, R(0), NaN, NaN)

computeStats(m, mode) ==
    IF Channels(m.type) = 1
    THEN StatsOf(m, IF m.type = "CV_8U" \/ m.type = "CV_16U" THEN countNonZero(m) ELSE 0,
                 MinMaxLoc(m, mode))
    ELSE Stats(m, Unset, Unset, Unset, Unset)

\* ---------------------------------------------------------- convertForSave
\* getNormalizedExt of StringUtil.h: the extension without its period
getNormalizedExt(inputExt) ==
    CASE inputExt = ".tiff" -> "tiff"
      [] inputExt = ".pgm"  -> "pgm"
      [] inputExt = ".jpg"  -> "jpg"
      [] OTHER              -> inputExt

\* cv::cvtColor(img, dst, cv::COLOR_GRAY2BGR): depth CV_8U, CV_16U or CV_32F
Gray2Bgr(m) ==
    IF m.type = "CV_32S" THEN [err |-> ErrCv, dst |-> NoImage]
    ELSE [err |-> ErrNone,
          dst |-> [type |-> CASE m.type = "CV_8U"  -> "CV_8UC3"
                              [] m.type = "CV_16U" -> "CV_16UC3"
                              [] OTHER             -> "CV_32FC3",
                   pix |-> [i \in DOMAIN m.pix |-> <<m.pix[i], m.pix[i], m.pix[i]>>]]]

\* cv::cvtColor(img, dst, cv::COLOR_BGRA2BGR, CV_8UC1): dstCn = 0
Bgra2Bgr(m) ==
    [type |-> "CV_8UC3",
     pix |-> [i \in DOMAIN m.pix |-> <<m.pix[i][1], m.pix[i][2], m.pix[i][3]>>]]

\* cv::cvtColor(img, dst, cv::COLOR_BGR2GRAY / COLOR_BGRA2GRAY, CV_8UC1)
Bgr2Gray(m) ==
    [type |-> "CV_8U",
     pix |-> [i \in DOMAIN m.pix |->
                (m.pix[i][1] * 1868 + m.pix[i][2] * 9617 + m.pix[i][3] * 4899 + 8192)
                    \div 16384]]

\* img.convertTo(dst, CV_8UC1) of a single-channel buffer
ConvertTo8U(m, nanByte) ==
    [type |-> "CV_8U",
     pix |-> [i \in DOMAIN m.pix |->
                IF IsNaN(FVal(m, i)) THEN nanByte
                ELSE SaturateU8(CvRound(FVal(m, i)))]]

\* img.convertTo(dst, CV_32F)
ConvertTo32F(m) ==
    [type |-> "CV_32F", pix |-> [i \in DOMAIN m.pix |-> FVal(m, i)]]

\* a failure that is not reported
Fail_Silent(e) == [err |-> ErrNone, isChanged |-> FALSE, dst |-> NoImage]

\* an exception leaves convertForSave without a return value
Fail(e) == [err |-> e, isChanged |-> FALSE, dst |-> NoImage]

\* dst and the value returned
Done(d, changed) == [err |-> ErrNone, isChanged |-> changed, dst |-> d]

\* a call that raises, or whose dst is the converted buffer
Converted(c) == IF c.err # ErrNone THEN Fail(c.err) ELSE Done(c.dst, TRUE)

\* lines 681-683, t being the result of histPercentiles(img, 1.0f, 99.0f)
AutoRange(m, t, mode, nanByte) ==
    IF t.err # ErrNone THEN Fail(t.err)
    ELSE Converted(imgTo8u(m, t.low, t.high, mode, nanByte))

\* lines 670-746 with ext = getNormalizedExt(inputExt)
ConvertForExt(m, ext, mode, nanByte) ==
    IF m.type \in {"CV_16U", "CV_32S", "CV_32F"} /\ ~(ext = "tif" \/ ext = "tiff")
    THEN AutoRange(m, histPercentiles(m, 1, 99, mode), mode, nanByte)
    ELSE IF m.type = "CV_32S" /\ (ext = "tif" \/ ext = "tiff")
    THEN Done(ConvertTo32F(m), TRUE)
    ELSE IF ext = "ppm"
    THEN IF m.type \in {"CV_8U", "CV_16U", "CV_32S", "CV_32F"}
         THEN Converted(Gray2Bgr(m))
         ELSE IF m.type = "CV_8UC3" THEN Done(m, FALSE)
         ELSE IF m.type = "CV_8UC4" THEN Done(Bgra2Bgr(m), TRUE)
         ELSE Fail(ErrRuntime)
    ELSE IF ext = "pbm" \/ ext = "pgm"
    THEN IF m.type \in {"CV_8U", "CV_16U", "CV_32S", "CV_32F"}
         THEN Done(ConvertTo8U(m, nanByte), TRUE)
         ELSE IF m.type = "CV_8UC3" \/ m.type = "CV_8UC4"
         THEN Done(Bgr2Gray(m), TRUE)
         ELSE Fail(ErrRuntime)
    ELSE Done(m, FALSE)

convertForSave(m, inputExt, mode, nanByte) ==
    ConvertForExt(m, getNormalizedExt(inputExt), mode, nanByte)

\* --------------------------------------------------------------- actions
NoArgs == [none |-> TRUE]

Init ==
    /\ img \in Images
    /\ op = "input"
    /\ args = NoArgs
    /\ ret = [err |-> ErrNone]

CallImgMinMax ==
    /\ op = "input"
    /\ \E mode \in NanModes :
        /\ (mode = "skip" => HasNaN(img))
        /\ op' = "imgMinMax"
        /\ args' = [nanMode |-> mode]
        /\ ret' = imgMinMax(img, mode)
    /\ UNCHANGED img

CallHistInt ==
    /\ op = "input"
    /\ op' = "histInt"
    /\ args' = NoArgs
    /\ ret' = histInt(img)
    /\ UNCHANGED img

\* binShift values handed to histInt(img, binShift)
Shifts == 0..16

\* What a build does after a write outside the vector is undefined: the
\* call crashes, or it returns with the vector as the in-range writes left it.
OobOutcomes == {"crash", "return"}

CallHistIntShift ==
    /\ op = "input"
    /\ \E binShift \in Shifts, ub \in OobOutcomes :
        LET r == histIntShift(img, binShift)
        IN  /\ op' = "histIntShift"
            /\ args' = [binShift |-> binShift]
            /\ ret' = IF r.oob # {} /\ ub = "crash"
                      THEN [r EXCEPT !.err = "crash"]
                      ELSE r
    /\ UNCHANGED img

\* binCount, minVal and maxVal handed to histFloat
BinCounts == {-1, 0, 1, 2, 3}
RangeArgs == {NaN, R(0), R(5)}

CallHistFloat ==
    /\ op = "input"
    /\ \E binCount \in BinCounts, minVal \in RangeArgs, maxVal \in RangeArgs,
          mode \in NanModes, zb \in ZeroBinOutcomes :
        /\ (mode = "skip" => HasNaN(img) /\ IsNaN(maxVal))
        /\ (zb = "empty" => binCount = 0)
        /\ op' = "histFloat"
        /\ args' = [binCount |-> binCount, minVal |-> minVal, maxVal |-> maxVal,
                    nanMode |-> mode, zeroBins |-> zb]
        /\ ret' = histFloat(img, binCount, minVal, maxVal, mode, zb)
    /\ UNCHANGED img

\* lowPct and highPct handed to histPercentiles
Pcts == {0, 1, 50, 99, 100}

CallHistPercentiles ==
    /\ op = "input"
    /\ \E lowPct \in Pcts, highPct \in Pcts, mode \in NanModes :
        /\ (mode = "skip" => HasNaN(img))
        /\ op' = "histPercentiles"
        /\ args' = [lowPct |-> lowPct, highPct |-> highPct, nanMode |-> mode]
        /\ ret' = histPercentiles(img, lowPct, highPct, mode)
    /\ UNCHANGED img

\* lowVal and highVal handed to imgTo8u; highVal <= lowVal means "not given"
ScaleRanges == {<<R(0), R(0)>>, <<R(0), R(5)>>, <<R(1), R(128)>>, <<<<1, 2>>, R(3)>>}

CallImgTo8u ==
    /\ op = "input"
    /\ \E rng \in ScaleRanges, mode \in NanModes, nanByte \in NanBytes :
        /\ (mode = "skip" => HasNaN(img))
        /\ (nanByte = 255 => HasNaN(img) \/ Le(rng[2], rng[1]))
        /\ op' = "imgTo8u"
        /\ args' = [lowVal |-> rng[1], highVal |-> rng[2], nanMode |-> mode,
                    nanByte |-> nanByte]
        /\ ret' = imgTo8u(img, rng[1], rng[2], mode, nanByte)
    /\ UNCHANGED img

CallComputeStats ==
    /\ op = "input"
    /\ \E mode \in NanModes :
        /\ (mode = "skip" => HasNaN(img))
        /\ op' = "computeStats"
        /\ args' = [nanMode |-> mode]
        /\ ret' = computeStats(img, mode)
    /\ UNCHANGED img

\* extensions handed to convertForSave, with or without the period
InputExts == {"tif", ".tiff", "ppm", ".pgm", "pbm", "png", ".jpg"}

CallConvertForSave ==
    /\ op = "input"
    /\ \E inputExt \in InputExts, mode \in NanModes, nanByte \in NanBytes :
        /\ (mode = "skip" => HasNaN(img))
        /\ (nanByte = 255 => img.type \in {"CV_16U", "CV_32S", "CV_32F"})
        /\ op' = "convertForSave"
        /\ args' = [inputExt |-> inputExt, nanMode |-> mode, nanByte |-> nanByte]
        /\ ret' = convertForSave(img, inputExt, mode, nanByte)
    /\ UNCHANGED img

Next ==
    \/ CallImgTo8u
    \/ CallComputeStats
    \/ CallConvertForSave
    \/ CallHistFloat
    \/ CallHistPercentiles
    \/ CallImgMinMax
    \/ CallHistInt
    \/ CallHistIntShift

Spec == Init /\ [][Next]_vars

\* histPercentiles on CV_16U buffers, the long ones included
PercentileImages == {m \in Images : m.type = "CV_16U"} \cup BigImages

InitPercentile ==
    /\ img \in PercentileImages
    /\ op = "input"
    /\ args = NoArgs
    /\ ret = [err |-> ErrNone]

NextPercentile == CallHistPercentiles

SpecPercentile == InitPercentile /\ [][NextPercentile]_vars

\* ================================================================== claims
NormExt == getNormalizedExt(args.inputExt)

\* indices of the samples that are not NaN
Valid(m) == {i \in DOMAIN m.pix : ~IsNaN(FVal(m, i))}

\* v is the least (greatest) non-NaN sample of m
IsMinOf(v, m) ==
    /\ \E i \in Valid(m) : Eq(FVal(m, i), v)
    /\ \A i \in Valid(m) : Le(v, FVal(m, i))
IsMaxOf(v, m) ==
    /\ \E i \in Valid(m) : Eq(FVal(m, i), v)
    /\ \A i \in Valid(m) : Le(FVal(m, i), v)

\* C1: for every UInt8 or UInt16 buffer and every shift s (0 for the variant
\* without a shift) histInt returns counts of length range >> s, slot k
\* holding the number of samples v with v >> s = k, the counts summing to the
\* number of samples.  (Slots outside the ones named below are 0 in the
\* vector and have no sample.)
C1_HistIntExactCounts ==
    (op \in {"histInt", "histIntShift"} /\ img.type \in {"CV_8U", "CV_16U"}) =>
        LET s == IF op = "histInt" THEN 0 ELSE args.binShift
            range == IF img.type = "CV_8U" THEN 256 ELSE 65536
            hit == {Shr(img.pix[i], s) : i \in DOMAIN img.pix}
        IN  /\ ret.err = ErrNone
            /\ ret.counts.len = Shr(range, s)
            /\ \A k \in hit \cup DOMAIN ret.counts.nz :
                /\ k < ret.counts.len
                /\ Slot(ret.counts, k) =
                     Cardinality({i \in DOMAIN img.pix : Shr(img.pix[i], s) = k})
            /\ VecSum(ret.counts) = Len(img.pix)

\* a call of histFloat with minVal and maxVal left to their defaults, at
\* least one bin, a depth calcHist accepts and a sample above 0, so that the
\* resolved maxVal is above the resolved minVal
C2_DefaultNonDegenerate ==
    /\ op = "histFloat"
    /\ IsNaN(args.minVal) /\ IsNaN(args.maxVal)
    /\ args.binCount >= 1
    /\ img.type \in {"CV_8U", "CV_16U", "CV_32F"}
    /\ \E i \in Valid(img) : Lt(R(0), FVal(img, i))

C3_UnchangedIffSameType ==
    (op = "convertForSave" /\ ret.err = ErrNone /\ Len(img.pix) > 0) =>
        ((ret.isChanged = FALSE) <=> (ret.dst.type = img.type))

\* C4: a UInt16, Int32 or Float32 buffer with samples saved to any format but tif/tiff is
\* converted without error to the 8-bit buffer that imgTo8u makes of it with
\* its 1st/99th percentile range, and true is returned.
C4_RescaleSucceeds ==
    (op = "convertForSave" /\ img.type \in {"CV_16U", "CV_32S", "CV_32F"}
        /\ NormExt \notin {"tif", "tiff"} /\ Len(img.pix) > 0) =>
        /\ ret.err = ErrNone
        /\ ret.isChanged = TRUE
        /\ ret.dst.type = "CV_8U"

\* C5: a single-channel buffer of any of the four encodings, with samples, saved to ppm
\* comes back as a 3-channel byte buffer with the channel replicated, and true
\* is returned.
C5_PpmReplicatesChannel ==
    (op = "convertForSave" /\ img.type \in SingleTypes /\ NormExt = "ppm"
        /\ Len(img.pix) > 0) =>
        /\ ret.err = ErrNone
        /\ ret.isChanged = TRUE
        /\ ret.dst.type = "CV_8UC3"
        /\ Len(ret.dst.pix) = Len(img.pix)
        /\ \A i \in DOMAIN ret.dst.pix :
            ret.dst.pix[i][1] = ret.dst.pix[i][2] /\ ret.dst.pix[i][2] = ret.dst.pix[i][3]

\* C6: histPercentiles on a Float32 buffer whose every element is NaN returns
\* (NaN, NaN) and raises no error.
C6_AllNaNGivesNaNPair ==
    (op = "histPercentiles" /\ img.type = "CV_32F" /\ Len(img.pix) > 0
        /\ Valid(img) = {}) =>
        (ret.err = ErrNone /\ IsNaN(ret.low) /\ IsNaN(ret.high))

\* clamp(round(scale * x + offset), 0, 255) with scale = 255 / (highVal -
\* lowVal) and offset = -scale * lowVal
ClampRound(x, lowVal, highVal) ==
    SaturateU8(CvRound(Div(Mul(R(255), Sub(x, lowVal)), Sub(highVal, lowVal))))

\* C7: imgTo8u maps every sample x to clamp(round(scale * x + offset), 0,
\* 255); a sample below lowVal gives 0.
C7_ClampsBelowLowToZero ==
    (op = "imgTo8u" /\ ret.err = ErrNone /\ Channels(img.type) = 1
        /\ Lt(ret.lowVal, ret.highVal)) =>
        \A i \in Valid(img) :
            ret.dst.pix[i] = ClampRound(FVal(img, i), ret.lowVal, ret.highVal)

\* a call of imgTo8u without a range on a single-channel buffer whose least
\* sample is below its greatest
C8_UnsetRange ==
    /\ op = "imgTo8u"
    /\ Le(args.highVal, args.lowVal)
    /\ Channels(img.type) = 1
    /\ \E i, j \in Valid(img) : Lt(FVal(img, i), FVal(img, j))

\* C8: imgTo8u called with highVal <= lowVal on a buffer whose minimum is
\* below its maximum uses the buffer's minimum and maximum as the range, and
\* the minimum sample becomes 0 and the maximum sample 255.
C8_MinToZeroMaxTo255 ==
    C8_UnsetRange =>
        /\ ret.err = ErrNone
        /\ IsMinOf(ret.lowVal, img) /\ IsMaxOf(ret.highVal, img)
        /\ \A i \in Valid(img) :
            /\ (IsMinOf(FVal(img, i), img) => ret.dst.pix[i] = 0)
            /\ (IsMaxOf(FVal(img, i), img) => ret.dst.pix[i] = 255)

C8_Witness ==
    /\ C8_UnsetRange
    /\ img.type = "CV_16U"
    /\ img.pix = <<1000, 1, 65535>>
    /\ ret.dst.pix = <<4, 0, 255>>

\* a call of imgMinMax on a Float32 buffer for which cv::minMaxLoc reports
\* NaN for a bound
C9_FastPathNaN ==
    /\ op = "imgMinMax"
    /\ img.type = "CV_32F"
    /\ LET mm == MinMaxLoc(img, args.nanMode)
       IN  mm.err = ErrNone /\ (IsNaN(mm.low) \/ IsNaN(mm.high))

\* C9: when the bulk reduction reports NaN for a bound of a Float32 buffer,
\* imgMinMax returns the minimum and maximum of the non-NaN samples, and
\* (NaN, NaN) without an error if every sample is NaN.
C9_FallbackOverNonNaN ==
    C9_FastPathNaN =>
        /\ ret.err = ErrNone
        /\ IF Valid(img) = {}
           THEN IsNaN(ret.low) /\ IsNaN(ret.high)
           ELSE IsMinOf(ret.low, img) /\ IsMaxOf(ret.high, img)

C9_Witness ==
    /\ C9_FastPathNaN
    /\ img.pix = <<R(5), NaN, R(-3)>>
    /\ ret.low = R(-3) /\ ret.high = R(5)

\* C10: for a UInt8, UInt16 or Int32 single-channel buffer computeStats
\* returns nonzeroCount equal to the number of samples that are not 0.
C10_NonzeroCountExact ==
    (op = "computeStats" /\ img.type \in {"CV_8U", "CV_16U", "CV_32S"}) =>
        ret.nonzeroCount = Cardinality({i \in DOMAIN img.pix : img.pix[i] # 0})

\* a and b are the same float, NaN counting as equal to NaN
SameFloat(a, b) == (IsNaN(a) /\ IsNaN(b)) \/ Eq(a, b)

\* C11: for a non-empty single-channel buffer the minVal and maxVal of
\* computeStats are the pair imgMinMax returns for the same buffer, Float32
\* buffers with NaN samples for which cv::minMaxLoc reports NaN included.
C11_StatsMinMaxIsImgMinMax ==
    (op = "computeStats" /\ Channels(img.type) = 1 /\ Len(img.pix) > 0) =>
        /\ imgMinMax(img, args.nanMode).err = ErrNone
        /\ SameFloat(ret.minVal, imgMinMax(img, args.nanMode).low)
        /\ SameFloat(ret.maxVal, imgMinMax(img, args.nanMode).high)

\* a call of histPercentiles with lowPct < highPct on a UInt8, UInt16 or
\* Float32 buffer with a non-NaN sample
C12_Ordered ==
    /\ op = "histPercentiles"
    /\ img.type \in {"CV_8U", "CV_16U", "CV_32F"}
    /\ Valid(img) # {}
    /\ args.lowPct < args.highPct

\* C12: for lowPct < highPct histPercentiles returns a pair with low <= high
\* on every UInt8, UInt16 or Float32 buffer with a non-NaN sample.
C12_LowNotAboveHigh ==
    C12_Ordered => (ret.err = ErrNone /\ Le(ret.low, ret.high))

C12_Witness ==
    /\ C12_Ordered
    /\ img.type = "CV_32F"
    /\ img.pix = <<R(5), NaN, <<1, 2>>>>
    /\ args.lowPct = 1 /\ args.highPct = 99
    /\ Lt(ret.low, ret.high)

\* a call of histPercentiles(img, 1, 99) on a UInt16 buffer with two
\* different samples
C13_NonConstant ==
    /\ op = "histPercentiles"
    /\ img.type = "CV_16U"
    /\ args.lowPct = 1 /\ args.highPct = 99
    /\ \E i, j \in DOMAIN img.pix : img.pix[i] # img.pix[j]

Below(m, v) == Cardinality({i \in DOMAIN m.pix : m.pix[i] < v})
NotAbove(m, v) == Cardinality({i \in DOMAIN m.pix : m.pix[i] <= v})

\* one value v holds both percentiles: fewer than 1 percent of the samples
\* are below v and at least 99 percent are not above it
C13_OneValueHoldsBoth(m) ==
    \E i \in DOMAIN m.pix :
        /\ 100 * Below(m, m.pix[i]) < Len(m.pix)
        /\ 100 * NotAbove(m, m.pix[i]) >= 99 * Len(m.pix)

ResolvedMin(a) == IF IsNaN(a.minVal) THEN R(0) ELSE a.minVal

\* the upper bound histFloat works with: maxVal, the maximum imgMinMax finds
\* if it is NaN
ResolvedMax(m, a) ==
    IF IsNaN(a.maxVal)
    THEN imgMinMax(m, a.nanMode)
    ELSE [err |-> ErrNone, low |-> NaN, high |-> a.maxVal]

\* C14: histFloat on a Float32 buffer of NaN samples only, with maxVal
\* unspecified, leaves bins and counts empty for every binCount and raises
\* no error.
C14_AllNaNGivesEmptyHist ==
    (/\ op = "histFloat"
     /\ img.type = "CV_32F" /\ Len(img.pix) > 0 /\ Valid(img) = {}
     /\ IsNaN(args.maxVal)) =>
        (ret.err = ErrNone /\ ret.bins = <<>> /\ ret.counts.len = 0)

\* a call of histFloat whose resolved maxVal is not NaN and not above minVal
C15_Degenerate ==
    /\ op = "histFloat"
    /\ ResolvedMax(img, args).err = ErrNone
    /\ ~IsNaN(ResolvedMax(img, args).high)
    /\ Le(ResolvedMax(img, args).high, ResolvedMin(args))

\* C15: with a resolved maxVal <= minVal histFloat returns one bin starting
\* at minVal with count 0 and raises no error, whatever binCount and the
\* buffer are.
C15_OneBinAtMinVal ==
    C15_Degenerate =>
        /\ ret.err = ErrNone
        /\ ret.bins = <<ResolvedMin(args)>>
        /\ ret.counts.len = 1 /\ Slot(ret.counts, 0) = 0

C15_Witness ==
    /\ C15_Degenerate
    /\ img.type = "CV_32S" /\ img.pix = <<300, -7>>
    /\ args.binCount = -1
    /\ args.minVal = R(5) /\ args.maxVal = R(0)
    /\ ret.bins = <<R(5)>>

\* C16: with binCount <= 0 and a resolved maxVal > minVal histFloat fails
\* with InvalidArgument and leaves no histogram.
C16_NonPositiveBinCountRejected ==
    (/\ op = "histFloat"
     /\ args.binCount <= 0
     /\ ResolvedMax(img, args).err = ErrNone
     /\ ~IsNaN(ResolvedMax(img, args).high)
     /\ Lt(ResolvedMin(args), ResolvedMax(img, args).high)) =>
        (ret.err = ErrInvalidArgument /\ ret.bins = <<>> /\ ret.counts.len = 0)

\* a call of convertForSave for ppm, pbm or pgm with a source type none of
\* the branches for that format handles
C17_Unhandled ==
    /\ op = "convertForSave"
    /\ NormExt \in {"ppm", "pbm", "pgm"}
    /\ img.type \notin {"CV_8U", "CV_16U", "CV_32S", "CV_32F", "CV_8UC3", "CV_8UC4"}

\* a call of convertForSave for another format that neither the branch for
\* CV_16U/CV_32S/CV_32F to non-tiff nor the one for CV_32S to tiff covers
C17_PassThrough ==
    /\ op = "convertForSave"
    /\ NormExt \notin {"ppm", "pbm", "pgm"}
    /\ ~(img.type \in {"CV_16U", "CV_32S", "CV_32F"} /\ NormExt \notin {"tif", "tiff"})
    /\ ~(img.type = "CV_32S" /\ NormExt \in {"tif", "tiff"})

\* C17: convertForSave raises std::runtime_error and returns no buffer for a
\* ppm, pbm or pgm target with a source type other than single-channel
\* 8U/16U/32S/32F, 8UC3 and 8UC4; for a pair that no branch covers and whose
\* target is a pass-through format it returns the input with isChanged false.
C17_UnhandledFailsElsePassThrough ==
    /\ C17_Unhandled => (ret.err = ErrRuntime /\ ret.dst = NoImage)
    /\ C17_PassThrough => (ret.err = ErrNone /\ ret.dst = img /\ ~ret.isChanged)

C17_Witness ==
    /\ C17_Unhandled
    /\ img.type = "CV_16UC3" /\ Len(img.pix) = 2
    /\ args.inputExt = ".pgm"
    /\ ret.err = ErrRuntime

\* C18: for every UInt8 or UInt16 buffer with a sample and every binShift in
\* 0..16 histInt(img, binShift) touches no counts slot outside the vector:
\* each sample >> binShift is below the allocated length.
C18_NoSlotOutsideCounts ==
    (/\ op = "histIntShift"
     /\ img.type \in {"CV_8U", "CV_16U"}
     /\ Len(img.pix) > 0) =>
        /\ ret.oob = {}
        /\ \A i \in DOMAIN img.pix : Shr(img.pix[i], args.binShift) < ret.counts.len

\* the width of a bin for the resolved range of a call with arguments a on m
C19_BinSize(m, a) ==
    Div(Sub(ResolvedMax(m, a).high, ResolvedMin(a)), R(a.binCount))

\* a call of histFloat with binCount >= 1 whose resolved maxVal is above
\* minVal
C19_NonDegenerate(o, m, a) ==
    /\ o = "histFloat"
    /\ a.binCount >= 1
    /\ ResolvedMax(m, a).err = ErrNone
    /\ ~IsNaN(ResolvedMax(m, a).high)
    /\ Lt(ResolvedMin(a), ResolvedMax(m, a).high)

\* what such a call leaves in r: minVal the resolved lower bound, maxVal the
\* resolved upper bound plus a tenth of a bin, bins[i] = minVal + i * binSize
C19_WrittenBack(m, a, r) ==
    /\ r.minVal = ResolvedMin(a)
    /\ Eq(r.maxVal, Add(ResolvedMax(m, a).high, Mul(<<1, 10>>, C19_BinSize(m, a))))
    /\ Len(r.bins) = a.binCount
    /\ \A i \in 1..a.binCount :
        Eq(r.bins[i], Add(ResolvedMin(a), Mul(R(i - 1), C19_BinSize(m, a))))

\* C19: a call of histFloat on the non-degenerate path leaves the resolved
\* lower bound in the caller's minVal and the resolved upper bound plus
\* 0.1 * binSize in the caller's maxVal, the bin edges minVal + i * binSize
\* being those of the range before the widening; the buffer is unchanged.
C19_WritesBackWidenedRange ==
    [][C19_NonDegenerate(op', img', args') =>
        (C19_WrittenBack(img', args', ret') /\ img' = img)]_vars

C19_Witness ==
    /\ C19_NonDegenerate(op, img, args)
    /\ img.type = "CV_32F" /\ img.pix = <<R(5), NaN>>
    /\ args.binCount = 2 /\ IsNaN(args.minVal) /\ IsNaN(args.maxVal)
    /\ ret.minVal = R(0) /\ ret.maxVal = <<21, 4>>
    /\ ret.bins = <<R(0), <<5, 2>>>>

====
